---- MODULE Spec2Model ----
(***************************************************************************)
(* Model of the final revision of server.js (lines 212-631): an Express    *)
(* API over a PostgreSQL pool.  Every handler is an async function whose   *)
(* pool.query calls are awaited one after the other and are wrapped in no  *)
(* transaction, so each SQL statement is one atomic step and the           *)
(* statements of concurrent requests interleave.  The synchronous prefix   *)
(* of a handler (verifyToken, reading the body) touches no stored data and *)
(* is taken together with the handler's first statement.                   *)
(*                                                                         *)
(* Tables are sets of rows.  The repository holds no schema: the tables    *)
(* carry serial ids and nothing else the code does not do itself.          *)
(*                                                                         *)
(* A statement may throw.  Where the handler answers 500 and stops, the    *)
(* request has changed nothing more and is left out; inside the loop of    *)
(* POST /api/facturar the error is caught and the loop goes on, and there  *)
(* both outcomes of each INSERT are taken.  Registration is left out: the  *)
(* users are those the database is seeded with.  The public GET routes,    *)
(* which write nothing, are left out as well.                              *)
(***************************************************************************)
EXTENDS Integers, Sequences, FiniteSets, TLC

VARIABLES
  usuarios,         \* table usuarios: [id, usuario, contrasena, rol]
  patologias,       \* table patologias: [id, nombre]
  horarios,         \* table horarios: [id, hora]
  configuracion,    \* table configuracion: clave -> valor
  carrito,          \* table carrito: [id, usuario_id, patologia_id, fecha, hora_id]
  citas,            \* table citas: [id, usuario_id, patologia_id, fecha, hora_id, precio]
  facturas,         \* table facturas: [id, usuario_id, subtotal, iva, total]
  detalle_factura,  \* table detalle_factura: [factura_id, cita_id]
  soporte,          \* table soporte: [id, usuario_id, asunto, mensaje]
  serial,           \* the next value of each table's serial id
  req,              \* per connection: the request being served and its handler's locals
  res,              \* the last response sent: its route, the req.usuario its handler
                    \* saw, its status and the token in its body
  auth,             \* the authorization header of the last request received
  now,              \* wall clock, in hours
  cupo              \* how many more requests the clients send

tablas == <<usuarios, patologias, horarios, configuracion, carrito, citas,
            facturas, detalle_factura, soporte, serial>>

vars == <<usuarios, patologias, horarios, configuracion, carrito, citas,
          facturas, detalle_factura, soporte, serial, req, res, auth, now, cupo>>

(***************************************************************************)
(* Bounds of the model.                                                    *)
(***************************************************************************)
MaxRequests == 3

Procs == {"c1", "c2"}

(***************************************************************************)
(* Program constants and the values requests are drawn from.               *)
(***************************************************************************)
TokenTTL == 8
JWT_SECRET == "JWT_SECRET"

Fechas == {"2024-05-01", "2024-05-02"}
Horas == {"09:00", "10:00"}
\* the (fecha, hora_id) pairs clients ask for
Turnos == {<<"2024-05-01", 1>>, <<"2024-05-01", 2>>}
PatologiaIds == {1}
Nombres == {"migrana"}
Importes == {[subtotal |-> 20, iva |-> 3, total |-> 23],
             [subtotal |-> 30, iva |-> 0, total |-> 30]}
Valores == {21}
Secretos == {"s-ana", "s-root", "otra"}
Handles == {"ana", "root", "nadie"}
Ids == {1}
Mensajes == {<<"ayuda", "no puedo pagar">>}

Rutas == [
  login |-> "POST /api/usuarios/login",
  carritoPost |-> "POST /api/carrito",
  carritoEliminar |-> "DELETE /api/carrito/eliminar",
  carritoGet |-> "GET /api/carrito",
  facturar |-> "POST /api/facturar",
  carritoUsuario |-> "GET /api/carrito/usuario",
  soportePost |-> "POST /api/soporte",
  adminUsuarios |-> "GET /api/admin/usuarios",
  adminUsuariosDelete |-> "DELETE /api/admin/usuarios/:id",
  adminPatologiasPost |-> "POST /api/admin/patologias",
  adminPatologiasDelete |-> "DELETE /api/admin/patologias/:id",
  adminHorariosPost |-> "POST /api/admin/horarios",
  adminHorariosDelete |-> "DELETE /api/admin/horarios/:id",
  adminFacturaDetalle |-> "GET /api/admin/facturas/:id",
  adminCitas |-> "GET /api/admin/citas",
  adminCitasDelete |-> "DELETE /api/admin/citas/:id",
  adminPrecio |-> "PUT /api/admin/precio",
  adminFacturas |-> "GET /api/admin/facturas",
  adminSoporte |-> "GET /api/admin/soporte",
  adminIva |-> "PUT /api/admin/iva" ]

(***************************************************************************)
(* Values.                                                                 *)
(***************************************************************************)
NoToken == [id |-> 0, rol |-> "", exp |-> 0, firma |-> <<>>]
NoUsuario == [id |-> 0, rol |-> ""]

\* req.body with every field missing
CuerpoVacio == [patologia_id |-> 0, fecha |-> "", hora_id |-> 0, hora |-> "",
                subtotal |-> 0, iva |-> 0, total |-> 0, id |-> 0,
                usuario |-> "", contrasena |-> "", nombre |-> "", valor |-> 0,
                asunto |-> "", mensaje |-> ""]

\* a connection that serves no request
Reposo == [pc |-> "idle", ruta |-> "", usuario |-> NoUsuario, body |-> CuerpoVacio,
           rows |-> <<>>, i |-> 0, factura_id |-> 0, cita_id |-> 0, creadas |-> {}]

SinRespuesta == [ruta |-> "", usuario |-> NoUsuario, status |-> 0, token |-> NoToken]

\* bcrypt.hash(contrasena, salt) and bcrypt.compare(contrasena, hash)
BcryptHash(contrasena, salt) == <<"2b", salt, contrasena>>
\* the promise bcrypt.compare returns, tested without await: it is truthy
CompareSinAwait(contrasena, hash) == TRUE
BcryptCompare(contrasena, hash) == hash = BcryptHash(contrasena, hash[2])

\* the users the database is seeded with (no route creates an admin)
UsuariosSemilla ==
  { [id |-> 1, usuario |-> "root", contrasena |-> BcryptHash("s-root", "salt1"), rol |-> "admin"],
    [id |-> 2, usuario |-> "ana", contrasena |-> BcryptHash("s-ana", "salt2"), rol |-> "paciente"] }

\* subtotal / citas.rowCount: the quotient, kept exact as numerator and denominator
Dividir(a, b) == [num |-> a, den |-> b]

RECURSIVE SumaPrecios(_)
\* the sum of the precio column over a set of citas rows, as a fraction
SumaPrecios(S) ==
  IF S = {} THEN [num |-> 0, den |-> 1]
  ELSE LET c == CHOOSE x \in S : TRUE
           r == SumaPrecios(S \ {c})
       IN [num |-> r.num * c.precio.den + c.precio.num * r.den,
           den |-> r.den * c.precio.den]

IgualImporte(q, n) == q.num = n * q.den

RECURSIVE PorId(_)
\* rows of a SELECT without ORDER BY: in insertion (= id) order
PorId(S) ==
  IF S = {} THEN <<>>
  ELSE LET c == CHOOSE x \in S : \A y \in S : x.id <= y.id
       IN <<c>> \o PorId(S \ {c})

(***************************************************************************)
(* Tokens.  A token is its claims and a signature over them: the signature *)
(* is the claims together with the key, so a token whose claims were       *)
(* altered, or that was signed with another key, does not verify.          *)
(***************************************************************************)
Firma(id, rol, exp, clave) == <<id, rol, exp, clave>>

\* jwt.sign({ id, rol }, JWT_SECRET, { expiresIn: '8h' }) at time t
JwtSign(id, rol, t) ==
  [id |-> id, rol |-> rol, exp |-> t + TokenTTL,
   firma |-> Firma(id, rol, t + TokenTTL, JWT_SECRET)]

\* jwt.verify with { ignoreExpiration: true }
JwtVerifySinExp(token) ==
  token.firma = Firma(token.id, token.rol, token.exp, JWT_SECRET)

\* jwt.verify(token, JWT_SECRET, callback): err is set unless this holds
JwtVerify(token) ==
  /\ token.firma = Firma(token.id, token.rol, token.exp, JWT_SECRET)
  /\ now < token.exp

\* what verifyToken does with the request: status 0 stands for next()
verifyToken(token) ==
  IF token = NoToken THEN [status |-> 401, usuario |-> NoUsuario]
  ELSE IF ~JwtVerify(token) THEN [status |-> 403, usuario |-> NoUsuario]
  ELSE [status |-> 0, usuario |-> [id |-> token.id, rol |-> token.rol]]

\* the test written as !req.usuario.rol: any role passes
SinRol(usuario) == usuario.rol = ""

\* req.usuario.rol !== 'admin'
NoEsAdmin(usuario) == usuario.rol # "admin"

\* the hours at which the clock stands: it advances once, by the life of a token
Relojes == {0, TokenTTL}

\* the authorization headers clients send: none, a token a login issued to a
\* seeded user at some earlier hour, such a token with its role altered, and a
\* token signed with another key
TokensOfrecidos ==
  LET emitidos == {JwtSign(u.id, u.rol, t) : u \in UsuariosSemilla,
                                             t \in {h \in Relojes : h <= now}}
  IN {NoToken}
     \cup emitidos
     \cup {[k EXCEPT !.rol = "admin"] : k \in {e \in emitidos : e.id = 2}}
     \cup {[id |-> 2, rol |-> "admin", exp |-> now + TokenTTL,
            firma |-> Firma(2, "admin", now + TokenTTL, "otra-clave")]}

(***************************************************************************)
(* Initial state: the seeded database, no request in flight.               *)
(***************************************************************************)
Semilla ==
  /\ usuarios = UsuariosSemilla
  /\ patologias = {[id |-> 1, nombre |-> "migrana"]}
  /\ horarios = {[id |-> 1, hora |-> "09:00"], [id |-> 2, hora |-> "10:00"]}
  /\ configuracion = [precio_cita |-> 20, iva |-> 15]
  /\ carrito = {}
  /\ citas = {}
  /\ facturas = {}
  /\ detalle_factura = {}
  /\ soporte = {}
  /\ serial = [patologias |-> 2, horarios |-> 3, carrito |-> 1, citas |-> 1, facturas |-> 1,
               soporte |-> 1]

\* two connections, so that the statements of two requests interleave
Init ==
  /\ Semilla
  /\ req = [p \in Procs |-> Reposo]
  /\ res = SinRespuesta
  /\ auth = NoToken
  /\ now = 0
  /\ cupo = MaxRequests

\* a request arrives on connection p with the authorization header `token`
Llega(p, token) ==
  /\ req[p].pc = "idle"
  /\ cupo > 0
  /\ cupo' = cupo - 1
  /\ auth' = token
  /\ now' = now

\* res.status(status).json(...): the request on p is answered
Responde(p, ruta, usuario, status, token) ==
  /\ req' = [req EXCEPT ![p] = Reposo]
  /\ res' = [ruta |-> ruta, usuario |-> usuario, status |-> status, token |-> token]

\* the handler on p goes on to its next await
Sigue(p, r) ==
  /\ req' = [req EXCEPT ![p] = r]
  /\ res' = res

\* the handler on p runs its next statement: no request arrives, no time passes
Paso(p, pc) ==
  /\ req[p].pc = pc
  /\ UNCHANGED <<auth, now, cupo>>

catalogo == <<usuarios, patologias, horarios, configuracion>>

(***************************************************************************)
(* POST /api/carrito                                                       *)
(***************************************************************************)
\* SELECT * FROM carrito WHERE usuario_id = $1 AND fecha = $2 AND hora_id = $3
ExisteEnCarrito(usuario_id, fecha, hora_id) ==
  {c \in carrito : c.usuario_id = usuario_id /\ c.fecha = fecha /\ c.hora_id = hora_id}

\* the route as its first revision has it: confirmed appointments are not looked up
SinExisteConfirmada(fecha, hora_id) == {}

\* SELECT * FROM citas WHERE fecha = $1 AND hora_id = $2
ExisteConfirmada(fecha, hora_id) ==
  {c \in citas : c.fecha = fecha /\ c.hora_id = hora_id}

CuerposCarrito ==
  {[CuerpoVacio EXCEPT !.patologia_id = a, !.fecha = t[1], !.hora_id = t[2]] :
     a \in PatologiaIds, t \in Turnos}

\* verifyToken, then the first SELECT and its test
PostCarritoReq(p, token, b) ==
  /\ Llega(p, token)
  /\ UNCHANGED tablas
  /\ LET v == verifyToken(token) IN
     IF v.status # 0 THEN Responde(p, Rutas.carritoPost, v.usuario, v.status, NoToken)
     ELSE IF Cardinality(ExisteEnCarrito(v.usuario.id, b.fecha, b.hora_id)) > 0
       THEN Responde(p, Rutas.carritoPost, v.usuario, 400, NoToken)
       ELSE Sigue(p, [Reposo EXCEPT !.pc = "existeConfirmada", !.ruta = Rutas.carritoPost,
                                    !.usuario = v.usuario, !.body = b])

PostCarrito(p) ==
  \E token \in TokensOfrecidos, b \in CuerposCarrito : PostCarritoReq(p, token, b)

\* the second SELECT and its test
PostCarritoExisteConfirmada(p) ==
  /\ Paso(p, "existeConfirmada")
  /\ UNCHANGED tablas
  /\ IF Cardinality(ExisteConfirmada(req[p].body.fecha, req[p].body.hora_id)) > 0
       THEN Responde(p, Rutas.carritoPost, req[p].usuario, 400, NoToken)
       ELSE Sigue(p, [req[p] EXCEPT !.pc = "insertCarrito"])

\* INSERT INTO carrito (usuario_id, patologia_id, fecha, hora_id)
FilaCarrito(r) ==
  [id |-> serial.carrito, usuario_id |-> r.usuario.id, patologia_id |-> r.body.patologia_id,
   fecha |-> r.body.fecha, hora_id |-> r.body.hora_id]

PostCarritoInsert(p) ==
  /\ Paso(p, "insertCarrito")
  /\ carrito' = carrito \cup {FilaCarrito(req[p])}
  /\ serial' = [serial EXCEPT !.carrito = @ + 1]
  /\ UNCHANGED <<catalogo, citas, facturas, detalle_factura, soporte>>
  /\ Responde(p, Rutas.carritoPost, req[p].usuario, 200, NoToken)

(***************************************************************************)
(* DELETE /api/carrito/eliminar                                            *)
(***************************************************************************)
\* (SELECT id FROM horarios WHERE hora = $3)
HoraIdsDe(hora) == {h.id : h \in {x \in horarios : x.hora = hora}}

\* the rows the DELETE removes when the subquery gives the ids S
FilasEliminar(usuario_id, fecha, S) ==
  {c \in carrito : c.usuario_id = usuario_id /\ c.fecha = fecha /\ c.hora_id \in S}

CuerposEliminar ==
  {[CuerpoVacio EXCEPT !.fecha = f, !.hora = h] : f \in Fechas, h \in Horas}

\* One DELETE statement.  The subquery is used as a scalar: no row gives NULL,
\* which equals no hora_id; more than one row is an error of the statement
\* (caught, 500), raised when the subquery is evaluated, which the executor
\* does for the first carrito row that passes the two tests written before it.
DeleteCarritoEliminarReq(p, token, b) ==
  /\ Llega(p, token)
  /\ UNCHANGED <<catalogo, citas, facturas, detalle_factura, soporte, serial>>
  /\ LET v == verifyToken(token)
         S == HoraIdsDe(b.hora)
         sinHora == {c \in carrito : c.usuario_id = v.usuario.id /\ c.fecha = b.fecha}
         filas == FilasEliminar(v.usuario.id, b.fecha, S)
     IN
     IF v.status # 0
       THEN carrito' = carrito /\ Responde(p, Rutas.carritoEliminar, v.usuario, v.status, NoToken)
     ELSE IF Cardinality(S) > 1 /\ sinHora # {}
       THEN carrito' = carrito /\ Responde(p, Rutas.carritoEliminar, v.usuario, 500, NoToken)
     ELSE IF Cardinality(S) > 1 \/ Cardinality(filas) = 0
       THEN carrito' = carrito /\ Responde(p, Rutas.carritoEliminar, v.usuario, 404, NoToken)
       ELSE /\ carrito' = carrito \ filas
            /\ Responde(p, Rutas.carritoEliminar, v.usuario, 200, NoToken)

DeleteCarritoEliminar(p) ==
  \E token \in TokensOfrecidos, b \in CuerposEliminar :
    DeleteCarritoEliminarReq(p, token, b)

(***************************************************************************)
(* POST /api/facturar                                                      *)
(***************************************************************************)
\* SELECT * FROM carrito WHERE usuario_id = $1
CitasDelCarrito(usuario_id) == PorId({c \in carrito : c.usuario_id = usuario_id})

\* the route as its first revision has it: the cart is not tested for emptiness
SinCarritoVacio(rows) == FALSE

\* citas.rowCount === 0
CarritoVacio(rows) == Len(rows) = 0

CuerposFacturar ==
  {[CuerpoVacio EXCEPT !.subtotal = m.subtotal, !.iva = m.iva, !.total = m.total] :
     m \in Importes}

\* verifyToken, then the SELECT of the cart and the test for an empty one
PostFacturarReq(p, token, b) ==
  /\ Llega(p, token)
  /\ UNCHANGED tablas
  /\ LET v == verifyToken(token)
         rows == CitasDelCarrito(v.usuario.id)
     IN
     IF v.status # 0 THEN Responde(p, Rutas.facturar, v.usuario, v.status, NoToken)
     ELSE IF CarritoVacio(rows) THEN Responde(p, Rutas.facturar, v.usuario, 400, NoToken)
     ELSE Sigue(p, [Reposo EXCEPT !.pc = "insertFactura", !.ruta = Rutas.facturar,
                                  !.usuario = v.usuario, !.body = b, !.rows = rows])

PostFacturar(p) ==
  \E token \in TokensOfrecidos, b \in CuerposFacturar : PostFacturarReq(p, token, b)

\* where the for loop over citas.rows stands after entry i: the next entry,
\* or the DELETE that follows the loop
TrasCita(r, i) ==
  [r EXCEPT !.pc = IF i < Len(r.rows) THEN "insertCita" ELSE "vaciarCarrito",
            !.i = i + 1, !.cita_id = 0]

\* INSERT INTO facturas (usuario_id, subtotal, iva, total) RETURNING id
FilaFactura(r) ==
  [id |-> serial.facturas, usuario_id |-> r.usuario.id, subtotal |-> r.body.subtotal,
   iva |-> r.body.iva, total |-> r.body.total]

FacturarInsertFactura(p) ==
  /\ Paso(p, "insertFactura")
  /\ facturas' = facturas \cup {FilaFactura(req[p])}
  /\ serial' = [serial EXCEPT !.facturas = @ + 1]
  /\ UNCHANGED <<catalogo, carrito, citas, detalle_factura, soporte>>
  /\ Sigue(p, TrasCita([req[p] EXCEPT !.factura_id = serial.facturas], 0))

\* INSERT INTO citas (usuario_id, patologia_id, fecha, hora_id, precio) RETURNING id
FilaCita(r) ==
  [id |-> serial.citas, usuario_id |-> r.usuario.id,
   patologia_id |-> r.rows[r.i].patologia_id, fecha |-> r.rows[r.i].fecha,
   hora_id |-> r.rows[r.i].hora_id, precio |-> Dividir(r.body.subtotal, Len(r.rows))]

\* the loop without its own try/catch: a failed INSERT reaches the handler's
\* catch, which answers 500
FacturarInsertCitaAborta(p) ==
  /\ Paso(p, "insertCita")
  /\ UNCHANGED <<catalogo, carrito, facturas, detalle_factura, soporte>>
  /\ \E ok \in BOOLEAN :
       IF ok
         THEN /\ citas' = citas \cup {FilaCita(req[p])}
              /\ serial' = [serial EXCEPT !.citas = @ + 1]
              /\ Sigue(p, [req[p] EXCEPT !.pc = "insertDetalle", !.cita_id = serial.citas,
                                         !.creadas = @ \cup {serial.citas}])
         ELSE /\ UNCHANGED <<citas, serial>>
              /\ Responde(p, Rutas.facturar, req[p].usuario, 500, NoToken)

\* The INSERT of entry i.  When the statement throws, the catch inside the
\* loop logs the error and the loop goes on to the next entry.
FacturarInsertCita(p) ==
  /\ Paso(p, "insertCita")
  /\ UNCHANGED <<catalogo, carrito, facturas, detalle_factura, soporte>>
  /\ \E ok \in BOOLEAN :
       IF ok
         THEN /\ citas' = citas \cup {FilaCita(req[p])}
              /\ serial' = [serial EXCEPT !.citas = @ + 1]
              /\ Sigue(p, [req[p] EXCEPT !.pc = "insertDetalle", !.cita_id = serial.citas,
                                         !.creadas = @ \cup {serial.citas}])
         ELSE /\ UNCHANGED <<citas, serial>>
              /\ Sigue(p, TrasCita(req[p], req[p].i))

\* INSERT INTO detalle_factura (factura_id, cita_id), caught the same way
FacturarInsertDetalle(p) ==
  /\ Paso(p, "insertDetalle")
  /\ UNCHANGED <<catalogo, carrito, citas, facturas, soporte, serial>>
  /\ \E ok \in BOOLEAN :
       /\ detalle_factura' =
            IF ok THEN detalle_factura \cup
                         {[factura_id |-> req[p].factura_id, cita_id |-> req[p].cita_id]}
                  ELSE detalle_factura
       /\ Sigue(p, TrasCita(req[p], req[p].i))

\* DELETE FROM carrito WHERE usuario_id = $1, then the response
FacturarVaciarCarrito(p) ==
  /\ Paso(p, "vaciarCarrito")
  /\ carrito' = {c \in carrito : c.usuario_id # req[p].usuario.id}
  /\ UNCHANGED <<catalogo, citas, facturas, detalle_factura, soporte, serial>>
  /\ Responde(p, Rutas.facturar, req[p].usuario, 200, NoToken)

(***************************************************************************)
(* The other routes behind verifyToken alone.                              *)
(***************************************************************************)
\* a handler behind verifyToken whose one statement is a SELECT
Consulta(p, token, ruta) ==
  /\ Llega(p, token)
  /\ UNCHANGED tablas
  /\ LET v == verifyToken(token) IN
     Responde(p, ruta, v.usuario, IF v.status # 0 THEN v.status ELSE 200, NoToken)

\* GET /api/carrito
GetCarritoReq(p, token, b) == Consulta(p, token, Rutas.carritoGet)
GetCarrito(p) == \E token \in TokensOfrecidos : GetCarritoReq(p, token, CuerpoVacio)

\* GET /api/carrito/usuario
GetCarritoUsuarioReq(p, token, b) == Consulta(p, token, Rutas.carritoUsuario)
GetCarritoUsuario(p) ==
  \E token \in TokensOfrecidos : GetCarritoUsuarioReq(p, token, CuerpoVacio)

CuerposSoporte ==
  {[CuerpoVacio EXCEPT !.asunto = m[1], !.mensaje = m[2]] : m \in Mensajes}

\* POST /api/soporte: INSERT INTO soporte (usuario_id, asunto, mensaje)
PostSoporteReq(p, token, b) ==
  /\ Llega(p, token)
  /\ LET v == verifyToken(token) IN
     IF v.status # 0
       THEN UNCHANGED tablas /\ Responde(p, Rutas.soportePost, v.usuario, v.status, NoToken)
       ELSE /\ soporte' = soporte \cup {[id |-> serial.soporte, usuario_id |-> v.usuario.id,
                                         asunto |-> b.asunto, mensaje |-> b.mensaje]}
            /\ serial' = [serial EXCEPT !.soporte = @ + 1]
            /\ UNCHANGED <<catalogo, carrito, citas, facturas, detalle_factura>>
            /\ Responde(p, Rutas.soportePost, v.usuario, 200, NoToken)
PostSoporte(p) ==
  \E token \in TokensOfrecidos, b \in CuerposSoporte : PostSoporteReq(p, token, b)

(***************************************************************************)
(* POST /api/usuarios/login                                                *)
(***************************************************************************)
CuerposLogin ==
  {[CuerpoVacio EXCEPT !.usuario = h, !.contrasena = c] : h \in Handles, c \in Secretos}

\* SELECT * FROM usuarios WHERE usuario = $1
UsuariosCon(usuario) == {u \in usuarios : u.usuario = usuario}

\* One SELECT; bcrypt.compare and jwt.sign read no table.  The handler is
\* behind no verifyToken.
LoginReq(p, b) ==
  /\ Llega(p, NoToken)
  /\ UNCHANGED tablas
  /\ LET result == UsuariosCon(b.usuario) IN
     IF Cardinality(result) = 0 THEN Responde(p, Rutas.login, NoUsuario, 404, NoToken)
     ELSE LET user == CHOOSE u \in result : TRUE IN
          IF ~BcryptCompare(b.contrasena, user.contrasena)
            THEN Responde(p, Rutas.login, NoUsuario, 401, NoToken)
            ELSE Responde(p, Rutas.login, NoUsuario, 200, JwtSign(user.id, user.rol, now))

Login(p) == \E b \in CuerposLogin : LoginReq(p, b)

(***************************************************************************)
(* /api/admin/*: each handler is verifyToken, the test of the role and one *)
(* statement (two SELECTs for the detail of an invoice).                   *)
(***************************************************************************)
\* what the handler answers before its statement: 0 stands for going on
Puerta(token) ==
  LET v == verifyToken(token) IN
  IF v.status # 0 THEN v.status
  ELSE IF NoEsAdmin(v.usuario) THEN 403
  ELSE 0

\* a handler whose statement is a SELECT of a list
AdminSelect(p, token, ruta) ==
  /\ Llega(p, token)
  /\ UNCHANGED tablas
  /\ Responde(p, ruta, verifyToken(token).usuario,
              IF Puerta(token) # 0 THEN Puerta(token) ELSE 200, NoToken)

\* a handler whose statement writes: `cambio` is the statement's effect
AdminEscribe(p, token, ruta, cambio) ==
  /\ Llega(p, token)
  /\ IF Puerta(token) # 0
       THEN UNCHANGED tablas /\ Responde(p, ruta, verifyToken(token).usuario, Puerta(token), NoToken)
       ELSE cambio /\ Responde(p, ruta, verifyToken(token).usuario, 200, NoToken)

CuerposId == {[CuerpoVacio EXCEPT !.id = i] : i \in Ids}
CuerposNombre == {[CuerpoVacio EXCEPT !.nombre = n] : n \in Nombres}
CuerposHora == {[CuerpoVacio EXCEPT !.hora = h] : h \in Horas}
CuerposValor == {[CuerpoVacio EXCEPT !.valor = x] : x \in Valores}

\* GET /api/admin/usuarios
AdminUsuariosReq(p, token, b) == AdminSelect(p, token, Rutas.adminUsuarios)
AdminUsuarios(p) ==
  \E token \in TokensOfrecidos : AdminUsuariosReq(p, token, CuerpoVacio)

\* DELETE /api/admin/usuarios/:id
AdminUsuariosDeleteReq(p, token, b) ==
  AdminEscribe(p, token, Rutas.adminUsuariosDelete,
    /\ usuarios' = {u \in usuarios : u.id # b.id}
    /\ UNCHANGED <<patologias, horarios, configuracion, carrito, citas, facturas,
                   detalle_factura, soporte, serial>>)
AdminUsuariosDelete(p) ==
  \E token \in TokensOfrecidos, b \in CuerposId : AdminUsuariosDeleteReq(p, token, b)

\* POST /api/admin/patologias
AdminPatologiasPostReq(p, token, b) ==
  AdminEscribe(p, token, Rutas.adminPatologiasPost,
    /\ patologias' = patologias \cup {[id |-> serial.patologias, nombre |-> b.nombre]}
    /\ serial' = [serial EXCEPT !.patologias = @ + 1]
    /\ UNCHANGED <<usuarios, horarios, configuracion, carrito, citas, facturas,
                   detalle_factura, soporte>>)
AdminPatologiasPost(p) ==
  \E token \in TokensOfrecidos, b \in CuerposNombre : AdminPatologiasPostReq(p, token, b)

\* DELETE /api/admin/patologias/:id
AdminPatologiasDeleteReq(p, token, b) ==
  AdminEscribe(p, token, Rutas.adminPatologiasDelete,
    /\ patologias' = {x \in patologias : x.id # b.id}
    /\ UNCHANGED <<usuarios, horarios, configuracion, carrito, citas, facturas,
                   detalle_factura, soporte, serial>>)
AdminPatologiasDelete(p) ==
  \E token \in TokensOfrecidos, b \in CuerposId : AdminPatologiasDeleteReq(p, token, b)

\* POST /api/admin/horarios
AdminHorariosPostReq(p, token, b) ==
  AdminEscribe(p, token, Rutas.adminHorariosPost,
    /\ horarios' = horarios \cup {[id |-> serial.horarios, hora |-> b.hora]}
    /\ serial' = [serial EXCEPT !.horarios = @ + 1]
    /\ UNCHANGED <<usuarios, patologias, configuracion, carrito, citas, facturas,
                   detalle_factura, soporte>>)
AdminHorariosPost(p) ==
  \E token \in TokensOfrecidos, b \in CuerposHora : AdminHorariosPostReq(p, token, b)

\* DELETE /api/admin/horarios/:id
AdminHorariosDeleteReq(p, token, b) ==
  AdminEscribe(p, token, Rutas.adminHorariosDelete,
    /\ horarios' = {x \in horarios : x.id # b.id}
    /\ UNCHANGED <<usuarios, patologias, configuracion, carrito, citas, facturas,
                   detalle_factura, soporte, serial>>)
AdminHorariosDelete(p) ==
  \E token \in TokensOfrecidos, b \in CuerposId : AdminHorariosDeleteReq(p, token, b)

\* SELECT ... FROM facturas f JOIN usuarios u ON f.usuario_id = u.id WHERE f.id = $1
Encabezado(id) ==
  {f \in facturas : f.id = id /\ \E u \in usuarios : u.id = f.usuario_id}

\* GET /api/admin/facturas/:id
AdminFacturaDetalleReq(p, token, b) ==
  /\ Llega(p, token)
  /\ UNCHANGED tablas
  /\ Responde(p, Rutas.adminFacturaDetalle, verifyToken(token).usuario,
              IF Puerta(token) # 0 THEN Puerta(token)
              ELSE IF Cardinality(Encabezado(b.id)) = 0 THEN 404 ELSE 200,
              NoToken)
AdminFacturaDetalle(p) ==
  \E token \in TokensOfrecidos, b \in CuerposId : AdminFacturaDetalleReq(p, token, b)

\* GET /api/admin/citas
AdminCitasReq(p, token, b) == AdminSelect(p, token, Rutas.adminCitas)
AdminCitas(p) ==
  \E token \in TokensOfrecidos : AdminCitasReq(p, token, CuerpoVacio)

\* the deletion of an appointment taking the invoices that bill it along
AdminCitasDeleteConFactura(p, token, b) ==
  AdminEscribe(p, token, Rutas.adminCitasDelete,
    /\ citas' = {c \in citas : c.id # b.id}
    /\ facturas' = {f \in facturas :
                      ~ \E d \in detalle_factura : d.factura_id = f.id /\ d.cita_id = b.id}
    /\ UNCHANGED <<catalogo, carrito, detalle_factura, soporte, serial>>)

\* DELETE /api/admin/citas/:id
AdminCitasDeleteReq(p, token, b) ==
  AdminEscribe(p, token, Rutas.adminCitasDelete,
    /\ citas' = {c \in citas : c.id # b.id}
    /\ UNCHANGED <<catalogo, carrito, facturas, detalle_factura, soporte, serial>>)
AdminCitasDelete(p) ==
  \E token \in TokensOfrecidos, b \in CuerposId : AdminCitasDeleteReq(p, token, b)

\* PUT /api/admin/precio
AdminPrecioReq(p, token, b) ==
  AdminEscribe(p, token, Rutas.adminPrecio,
    /\ configuracion' = [configuracion EXCEPT !.precio_cita = b.valor]
    /\ UNCHANGED <<usuarios, patologias, horarios, carrito, citas, facturas,
                   detalle_factura, soporte, serial>>)
AdminPrecio(p) ==
  \E token \in TokensOfrecidos, b \in CuerposValor : AdminPrecioReq(p, token, b)

\* GET /api/admin/facturas
AdminFacturasReq(p, token, b) == AdminSelect(p, token, Rutas.adminFacturas)
AdminFacturas(p) ==
  \E token \in TokensOfrecidos : AdminFacturasReq(p, token, CuerpoVacio)

\* GET /api/admin/soporte
AdminSoporteReq(p, token, b) == AdminSelect(p, token, Rutas.adminSoporte)
AdminSoporte(p) ==
  \E token \in TokensOfrecidos : AdminSoporteReq(p, token, CuerpoVacio)

\* PUT /api/admin/iva
AdminIvaReq(p, token, b) ==
  AdminEscribe(p, token, Rutas.adminIva,
    /\ configuracion' = [configuracion EXCEPT !.iva = b.valor]
    /\ UNCHANGED <<usuarios, patologias, horarios, carrito, citas, facturas,
                   detalle_factura, soporte, serial>>)
AdminIva(p) ==
  \E token \in TokensOfrecidos, b \in CuerposValor : AdminIvaReq(p, token, b)

\* the clock advances
Tick ==
  /\ now + TokenTTL \in Relojes
  /\ now' = now + TokenTTL
  /\ UNCHANGED <<tablas, req, res, auth, cupo>>

(***************************************************************************)
(* The booking flow: the cart, the checkout and the admin's deletion of a  *)
(* confirmed appointment, on two connections whose statements interleave.  *)
(***************************************************************************)
Next ==
  \E p \in Procs :
    \/ PostCarrito(p)
    \/ PostCarritoExisteConfirmada(p)
    \/ PostCarritoInsert(p)
    \/ DeleteCarritoEliminar(p)
    \/ PostFacturar(p)
    \/ FacturarInsertFactura(p)
    \/ FacturarInsertCita(p)
    \/ FacturarInsertDetalle(p)
    \/ FacturarVaciarCarrito(p)
    \/ AdminCitasDelete(p)

Spec == Init /\ [][Next]_vars

(***************************************************************************)
(* The whole API, one request at a time: the second connection is closed.  *)
(***************************************************************************)
InitUna ==
  /\ Semilla
  /\ req = [p \in Procs |-> IF p = "c1" THEN Reposo ELSE [Reposo EXCEPT !.pc = "closed"]]
  /\ res = SinRespuesta
  /\ auth = NoToken
  /\ now = 0
  /\ cupo = MaxRequests

NextApi ==
  \E p \in Procs :
    \/ Login(p)
    \/ PostCarrito(p)
    \/ PostCarritoExisteConfirmada(p)
    \/ PostCarritoInsert(p)
    \/ DeleteCarritoEliminar(p)
    \/ PostFacturar(p)
    \/ FacturarInsertFactura(p)
    \/ FacturarInsertCita(p)
    \/ FacturarInsertDetalle(p)
    \/ FacturarVaciarCarrito(p)
    \/ GetCarrito(p)
    \/ GetCarritoUsuario(p)
    \/ PostSoporte(p)
    \/ AdminUsuarios(p)
    \/ AdminUsuariosDelete(p)
    \/ AdminPatologiasPost(p)
    \/ AdminPatologiasDelete(p)
    \/ AdminHorariosPost(p)
    \/ AdminHorariosDelete(p)
    \/ AdminFacturaDetalle(p)
    \/ AdminCitas(p)
    \/ AdminCitasDelete(p)
    \/ AdminPrecio(p)
    \/ AdminFacturas(p)
    \/ AdminSoporte(p)
    \/ AdminIva(p)

SpecApi == InitUna /\ [][NextApi]_vars

(***************************************************************************)
(* The whole API with the clock, one request at a time and one request     *)
(* fewer.                                                                  *)
(***************************************************************************)
InitReloj ==
  /\ Semilla
  /\ req = [p \in Procs |-> IF p = "c1" THEN Reposo ELSE [Reposo EXCEPT !.pc = "closed"]]
  /\ res = SinRespuesta
  /\ auth = NoToken
  /\ now = 0
  /\ cupo = MaxRequests - 1

NextReloj == NextApi \/ Tick

SpecReloj == InitReloj /\ [][NextReloj]_vars

(***************************************************************************)
(* Properties.                                                             *)
(***************************************************************************)
\* the response to the caller `usuario` of `ruta` with `status` and no token
Respuesta(ruta, usuario, status) ==
  [ruta |-> ruta, usuario |-> usuario, status |-> status, token |-> NoToken]

\* C1: POST /api/carrito by an authenticated user U for (date, slot).  If U's
\* cart holds an entry with that (date, slot) when the first SELECT runs, the
\* request is answered 400; if some confirmed appointment of any user has
\* that (date, slot) when the second SELECT runs, the request is answered
\* 400; neither SELECT step changes carrito or citas.  A request that passes
\* both tests inserts exactly one entry (U, pathology, date, slot) into
\* carrito, leaves citas alone and is answered 200.
C1_AddToCart ==
  [][\A p \in Procs :
       /\ \A token \in TokensOfrecidos, b \in CuerposCarrito :
            PostCarritoReq(p, token, b) /\ verifyToken(token).status = 0 =>
              LET U == [id |-> token.id, rol |-> token.rol] IN
              /\ UNCHANGED <<carrito, citas>>
              /\ IF \E c \in carrito : /\ c.usuario_id = U.id
                                       /\ c.fecha = b.fecha
                                       /\ c.hora_id = b.hora_id
                   THEN /\ res' = Respuesta(Rutas.carritoPost, U, 400)
                        /\ req'[p] = Reposo
                   ELSE /\ res' = res
                        /\ req'[p].pc = "existeConfirmada"
                        /\ req'[p].usuario = U
                        /\ req'[p].body = b
       /\ PostCarritoExisteConfirmada(p) =>
            /\ UNCHANGED <<carrito, citas>>
            /\ IF \E c \in citas : /\ c.fecha = req[p].body.fecha
                                   /\ c.hora_id = req[p].body.hora_id
                 THEN /\ res' = Respuesta(Rutas.carritoPost, req[p].usuario, 400)
                      /\ req'[p] = Reposo
                 ELSE /\ res' = res
                      /\ req'[p] = [req[p] EXCEPT !.pc = "insertCarrito"]
       /\ PostCarritoInsert(p) =>
            /\ citas' = citas
            /\ res' = Respuesta(Rutas.carritoPost, req[p].usuario, 200)
            /\ \E c \in carrito' \ carrito :
                 /\ carrito' = carrito \cup {c}
                 /\ c.usuario_id = req[p].usuario.id
                 /\ c.patologia_id = req[p].body.patologia_id
                 /\ c.fecha = req[p].body.fecha
                 /\ c.hora_id = req[p].body.hora_id
    ]_vars

\* a POST /api/carrito was answered 400 while every cart was empty: the slot
\* asked for was a confirmed appointment
C1_Witness ==
  /\ res.ruta = Rutas.carritoPost
  /\ res.status = 400
  /\ carrito = {}
  /\ citas # {}

\* no checkout is between its first INSERT and its DELETE of the cart
SinFacturarEnCurso ==
  \A p \in Procs :
    req[p].pc \notin {"insertFactura", "insertCita", "insertDetalle", "vaciarCarrito"}

\* C2: in every state in which no checkout is under way, no cart entry has
\* the (date, slot) of another cart entry of the same user, and no cart entry
\* has the (date, slot) of a confirmed appointment.
C2_NoCartCollision ==
  SinFacturarEnCurso =>
    \A c \in carrito :
      /\ \A d \in carrito :
           (d # c /\ d.usuario_id = c.usuario_id) =>
             (d.fecha # c.fecha \/ d.hora_id # c.hora_id)
      /\ \A a \in citas : a.fecha # c.fecha \/ a.hora_id # c.hora_id

\* C3: POST /api/facturar by a user whose cart holds no entry when it is
\* loaded is answered 400 and changes no table: no invoice, appointment or
\* invoice line is created and nothing is deleted.
C3_EmptyCartCheckout ==
  [][\A p \in Procs, token \in TokensOfrecidos, b \in CuerposFacturar :
       ( /\ PostFacturarReq(p, token, b)
         /\ verifyToken(token).status = 0
         /\ ~ \E c \in carrito : c.usuario_id = token.id )
       => /\ res' = Respuesta(Rutas.facturar, [id |-> token.id, rol |-> token.rol], 400)
          /\ req'[p] = Reposo
          /\ UNCHANGED tablas
    ]_vars

\* a checkout was answered 400 after another one had created an invoice
C3_Witness ==
  /\ res.ruta = Rutas.facturar
  /\ res.status = 400
  /\ res.usuario # NoUsuario
  /\ facturas # {}

\* the appointments recorded in `tabla` that the checkout on p has inserted
CitasCreadas(p, tabla) == {c \in tabla : c.id \in req[p].creadas}

\* C4: when a checkout by user U that loaded n > 0 cart entries ends, it has
\* created exactly one invoice with the subtotal, VAT and total it was given,
\* one appointment for each entry loaded (same pathology, date and slot,
\* price subtotal / n) and one invoice line linking that invoice to each of
\* those appointments, U's cart is empty, and the prices of the appointments
\* created sum to the subtotal.
C4_CheckoutCreatesAll ==
  [][\A p \in Procs :
       FacturarVaciarCarrito(p) =>
         LET r == req[p]
             n == Len(r.rows)
             creadas == CitasCreadas(p, citas')
         IN
         /\ Cardinality({f \in facturas' : f.id = r.factura_id}) = 1
         /\ \A f \in facturas' :
              f.id = r.factura_id =>
                /\ f.usuario_id = r.usuario.id
                /\ f.subtotal = r.body.subtotal
                /\ f.iva = r.body.iva
                /\ f.total = r.body.total
         /\ Cardinality(creadas) = n
         /\ \A i \in 1..n :
              \E c \in creadas :
                /\ c.usuario_id = r.usuario.id
                /\ c.patologia_id = r.rows[i].patologia_id
                /\ c.fecha = r.rows[i].fecha
                /\ c.hora_id = r.rows[i].hora_id
                /\ c.precio = Dividir(r.body.subtotal, n)
         /\ {d \in detalle_factura' : d.factura_id = r.factura_id}
              = {[factura_id |-> r.factura_id, cita_id |-> c.id] : c \in creadas}
         /\ ~ \E c \in carrito' : c.usuario_id = r.usuario.id
         /\ IgualImporte(SumaPrecios(creadas), r.body.subtotal)
    ]_vars

\* C5: DELETE /api/carrito/eliminar by an authenticated user U for a (date,
\* slot time).  When no cart entry of U has that date and a slot with that
\* time, the answer is 404 and carrito is unchanged; otherwise exactly U's
\* entries with that date and slot are removed, so that the entries of other
\* users remain.
C5_RemoveFromCart ==
  [][\A p \in Procs, token \in TokensOfrecidos, b \in CuerposEliminar :
       DeleteCarritoEliminarReq(p, token, b) /\ verifyToken(token).status = 0 =>
         LET suyas == {c \in carrito :
                         /\ c.usuario_id = token.id
                         /\ c.fecha = b.fecha
                         /\ \E h \in horarios : h.id = c.hora_id /\ h.hora = b.hora}
         IN IF suyas = {}
              THEN res'.status = 404 /\ carrito' = carrito
              ELSE carrito' = carrito \ suyas
    ]_vars

\* a request arrives in this step
Llegada == cupo' = cupo - 1

\* the route of the request that arrives in this step
RutaLlegada ==
  IF \E p \in Procs : req'[p] # req[p]
    THEN (CHOOSE r \in {req'[p] : p \in {q \in Procs : req'[q] # req[q]}} : TRUE).ruta
    ELSE res'.ruta

RutasAdmin ==
  {Rutas.adminUsuarios, Rutas.adminUsuariosDelete, Rutas.adminPatologiasPost,
   Rutas.adminPatologiasDelete, Rutas.adminHorariosPost, Rutas.adminHorariosDelete,
   Rutas.adminFacturaDetalle, Rutas.adminCitas, Rutas.adminCitasDelete,
   Rutas.adminPrecio, Rutas.adminFacturas, Rutas.adminSoporte, Rutas.adminIva}

RutasProtegidas ==
  RutasAdmin \cup {Rutas.carritoPost, Rutas.carritoEliminar, Rutas.carritoGet,
                   Rutas.facturar, Rutas.carritoUsuario, Rutas.soportePost}

\* the header is a token signed with the server's key that has not expired
TokenVigente(token) ==
  /\ token # NoToken
  /\ token.firma = Firma(token.id, token.rol, token.exp, JWT_SECRET)
  /\ now < token.exp

\* C6: a request to any /api/admin/* route whose token verifies and carries
\* a role other than admin is answered 403, whatever its body, and changes
\* no table.
C6_NonAdminForbidden ==
  [][( /\ Llegada
       /\ RutaLlegada \in RutasAdmin
       /\ TokenVigente(auth')
       /\ auth'.rol # "admin" )
     => /\ res' = Respuesta(RutaLlegada, [id |-> auth'.id, rol |-> auth'.rol], 403)
        /\ req' = req
        /\ UNCHANGED tablas
    ]_vars

\* a patient was refused the deletion of an appointment that exists
C6_Witness ==
  /\ res.ruta = Rutas.adminCitasDelete
  /\ res.status = 403
  /\ auth = JwtSign(2, "paciente", 0)
  /\ citas # {}

\* C7: a request to a route behind verifyToken that carries no authorization
\* header is answered 401; one whose token is not signed with the server's
\* key, or has expired, is answered 403; in both cases the handler does not
\* run and no table changes.  With a token that verifies the handler runs,
\* and the req.usuario it works with is the (id, rol) of the token's claims.
C7_VerifyToken ==
  [][( Llegada /\ RutaLlegada \in RutasProtegidas ) =>
       IF auth' = NoToken
         THEN /\ res' = Respuesta(RutaLlegada, NoUsuario, 401)
              /\ req' = req
              /\ UNCHANGED tablas
       ELSE IF ~TokenVigente(auth')
         THEN /\ res' = Respuesta(RutaLlegada, NoUsuario, 403)
              /\ req' = req
              /\ UNCHANGED tablas
         ELSE LET U == [id |-> auth'.id, rol |-> auth'.rol] IN
              /\ \A p \in Procs : req'[p] # req[p] => req'[p].usuario = U
              /\ req' = req => res'.usuario = U /\ res'.status \notin {0, 401}
    ]_vars

\* the checkout of a cart was refused to a token that had been valid when
\* it was issued and has expired
C7_Witness ==
  /\ res.ruta = Rutas.facturar
  /\ res.status = 403
  /\ auth = JwtSign(2, "paciente", 0)
  /\ now = TokenTTL
  /\ carrito # {}

\* C8: a login whose handle is that of no user is answered 404; one whose
\* handle exists and whose secret is not the one the stored hash was made
\* from is answered 401; neither carries a token.  A login whose handle
\* exists and whose secret matches is answered with a token signed with the
\* server's key that carries that user's id and role and expires TokenTTL
\* hours later.  A login changes no table.
C8_Login ==
  [][\A p \in Procs, b \in CuerposLogin :
       LoginReq(p, b) =>
         LET conHandle == {u \in usuarios : u.usuario = b.usuario} IN
         /\ UNCHANGED tablas
         /\ res'.ruta = Rutas.login
         /\ IF conHandle = {}
              THEN res'.status = 404 /\ res'.token = NoToken
            ELSE IF \A u \in conHandle : u.contrasena[3] # b.contrasena
              THEN res'.status = 401 /\ res'.token = NoToken
              ELSE /\ res'.status = 200
                   /\ \E u \in conHandle :
                        /\ u.contrasena[3] = b.contrasena
                        /\ res'.token.id = u.id
                        /\ res'.token.rol = u.rol
                        /\ res'.token.exp = now + TokenTTL
                        /\ res'.token.firma = Firma(u.id, u.rol, now + TokenTTL, JWT_SECRET)
    ]_vars

\* a login with the handle of a user was answered 401 after another user
\* had been deleted
C8_Witness ==
  /\ res.ruta = Rutas.login
  /\ res.status = 401
  /\ \E u \in UsuariosSemilla : u \notin usuarios
  /\ usuarios # {}

\* C9: a checkout that finds entries in the cart goes on to insert one
\* invoice, with a fresh id, its caller as user and the amounts of its body;
\* no other step of any request adds an invoice; and an invoice that exists
\* stays as it is, with its user, subtotal, VAT and total, whatever request
\* runs.
C9_InvoiceOnceAndFrozen ==
  [][/\ \A f \in facturas : f \in facturas'
     /\ \A p \in Procs :
          /\ ( /\ req[p].pc = "idle"
               /\ req'[p].ruta = Rutas.facturar ) => req'[p].pc = "insertFactura"
          /\ req[p].pc = "insertFactura" /\ req'[p] # req[p] =>
               /\ req'[p].pc \in {"insertCita", "vaciarCarrito"}
               /\ \E f \in facturas' \ facturas :
                    /\ facturas' = facturas \cup {f}
                    /\ \A g \in facturas : g.id # f.id
                    /\ f.id = req'[p].factura_id
                    /\ f.usuario_id = req[p].usuario.id
                    /\ f.subtotal = req[p].body.subtotal
                    /\ f.iva = req[p].body.iva
                    /\ f.total = req[p].body.total
     /\ facturas' # facturas =>
          \E p \in Procs : req[p].pc = "insertFactura" /\ req'[p] # req[p]
    ]_vars

\* the admin has deleted the appointment an invoice bills, and the invoice
\* and its line are still there
C9_Witness ==
  /\ res.ruta = Rutas.adminCitasDelete
  /\ res.status = 200
  /\ facturas # {}
  /\ detalle_factura # {}
  /\ citas = {}

\* the appointments an invoice's lines link it to
CitasDeFactura(f) ==
  {c \in citas : \E d \in detalle_factura : d.factura_id = f.id /\ d.cita_id = c.id}

\* C10: for every invoice whose checkout is over, the prices of the
\* appointments its invoice lines link it to sum to its stored subtotal.
C10_LinesSumToSubtotal ==
  \A f \in facturas :
    (\A p \in Procs : req[p].factura_id # f.id) =>
      IgualImporte(SumaPrecios(CitasDeFactura(f)), f.subtotal)

\* where the loop of the checkout `r` stands once it is done with entry i
SiguienteEntrada(r, i) == IF i < Len(r.rows) THEN "insertCita" ELSE "vaciarCarrito"

\* C11: in a checkout, an appointment INSERT or an invoice-line INSERT that
\* fails is skipped.  Every step of the loop keeps the invoices, appointments
\* and invoice lines there are and sends no response; after entry i, whether
\* its INSERTs failed or not, the loop stands at entry i + 1, or at the
\* DELETE of the cart when i was the last; and that DELETE removes every
\* cart entry of the caller and answers 200, however many INSERTs failed.
C11_FailureSkipped ==
  [][\A p \in Procs :
       /\ ( req[p].pc \in {"insertCita", "insertDetalle"} /\ req'[p] # req[p] ) =>
            /\ facturas' = facturas
            /\ \A c \in citas : c \in citas'
            /\ \A d \in detalle_factura : d \in detalle_factura'
            /\ carrito' = carrito
            /\ res' = res
            /\ req'[p].rows = req[p].rows
            /\ req'[p].factura_id = req[p].factura_id
       /\ ( req[p].pc = "insertCita" /\ req'[p] # req[p] ) =>
            IF citas' = citas
              THEN /\ req'[p].pc = SiguienteEntrada(req[p], req[p].i)
                   /\ req'[p].i = req[p].i + 1
                   /\ detalle_factura' = detalle_factura
              ELSE /\ req'[p].pc = "insertDetalle"
                   /\ req'[p].i = req[p].i
                   /\ \E c \in citas' \ citas :
                        /\ citas' = citas \cup {c}
                        /\ c.fecha = req[p].rows[req[p].i].fecha
                        /\ c.hora_id = req[p].rows[req[p].i].hora_id
       /\ ( req[p].pc = "insertDetalle" /\ req'[p] # req[p] ) =>
            /\ req'[p].pc = SiguienteEntrada(req[p], req[p].i)
            /\ req'[p].i = req[p].i + 1
            /\ citas' = citas
       /\ ( req[p].pc = "vaciarCarrito" /\ req'[p] # req[p] ) =>
            /\ res' = Respuesta(Rutas.facturar, req[p].usuario, 200)
            /\ req'[p] = Reposo
            /\ carrito' = {c \in carrito : c.usuario_id # req[p].usuario.id}
            /\ UNCHANGED <<facturas, citas, detalle_factura>>
    ]_vars

\* a checkout of two entries stands at its DELETE of the cart with its
\* invoice and the appointment and line of the second entry only: the first
\* entry's INSERT failed and the loop went on
C11_Witness ==
  \E p \in Procs :
    /\ req[p].pc = "vaciarCarrito"
    /\ Len(req[p].rows) = 2
    /\ \E f \in facturas : f.id = req[p].factura_id
    /\ \E c \in citas :
         /\ req[p].creadas = {c.id}
         /\ c.hora_id = req[p].rows[2].hora_id
         /\ c.hora_id # req[p].rows[1].hora_id
         /\ [factura_id |-> req[p].factura_id, cita_id |-> c.id] \in detalle_factura

\* C12: at most one confirmed appointment exists for any (date, slot).
C12_SlotExclusive ==
  \A a \in citas : \A b \in citas :
    (a.fecha = b.fecha /\ a.hora_id = b.hora_id) => a = b

\* C13: every cart entry that the final DELETE of a checkout removes has a
\* confirmed appointment with its user, pathology, date and slot that the
\* same checkout created.  Stated here for the checkouts none of whose
\* INSERTs failed and none of whose appointments has been deleted since.
C13_NoEntryLost ==
  [][\A p \in Procs :
       ( /\ FacturarVaciarCarrito(p)
         /\ Cardinality(CitasCreadas(p, citas)) = Len(req[p].rows) ) =>
         \A c \in carrito \ carrito' :
           \E a \in CitasCreadas(p, citas) :
             /\ a.usuario_id = c.usuario_id
             /\ a.patologia_id = c.patologia_id
             /\ a.fecha = c.fecha
             /\ a.hora_id = c.hora_id
    ]_vars

====
